---- MODULE Spec2Model ----
(***************************************************************************)
(* Model of the DHT22 single-wire driver (src/src/lib.rs).                 *)
(*                                                                         *)
(* Time is counted in microseconds: every duration the driver compares     *)
(* against (70 us, 90 us, 200 us) is a whole number of microseconds, and   *)
(* the polling loop of measure_pulse takes one tick per iteration.         *)
(*                                                                         *)
(* The data line, once the pin is an input, is a train of pulses of        *)
(* alternating level produced by the sensor:                               *)
(*   pulse 0            High  response delay                               *)
(*   pulse 1, 2         Low, High  acknowledgement                         *)
(*   pulse 3+2i, 4+2i   Low, High  bit slot i (0 <= i < NUM_DATA_BITS)     *)
(*   pulse 83           Low   end of transmission                          *)
(*   pulse 84           High  bus idle (pull-up), for ever                 *)
(* A transaction sees the nominal train of one frame with at most one      *)
(* pulse of another length, or a line that sticks at one pulse, or a line  *)
(* whose pulses (all but the acknowledgement) last about the timeout.      *)
(***************************************************************************)
EXTENDS Integers, Sequences, FiniteSets, TLC

(* ---------------------------- constants of lib.rs ---------------------- *)

HUMIDITY_HIGH_BYTE_INDEX == 0
HUMIDITY_LOW_BYTE_INDEX == 1
TEMPERATURE_HIGH_BYTE_INDEX == 2
TEMPERATURE_LOW_BYTE_INDEX == 3
CHECKSUM_BYTE_INDEX == 4

NUM_DATA_BYTES == 5
NUM_DATA_BITS == NUM_DATA_BYTES * 8

PULSE_TIMEOUT == 200

ACK_MIN == 70
ACK_MAX == 90

(* ---------------------------- bounds of the model ---------------------- *)

MaxReads == 2

(* ---------------------------- nominal sensor timing -------------------- *)

T_RESPONSE == 20
T_ACK == 80
T_BIT_START == 50
T_ZERO == 25
T_ONE == 70

LastPulse == 3 + 2 * NUM_DATA_BITS + 1

ByteIdx == 0 .. (NUM_DATA_BYTES - 1)
BitIdx == 0 .. (NUM_DATA_BITS - 1)

ZeroBytes == [j \in ByteIdx |-> 0]
ZeroDurations == [k \in BitIdx |-> 0]

MkFrame(b0, b1, b2, b3, b4) ==
    [j \in ByteIdx |-> CASE j = 0 -> b0 [] j = 1 -> b1 [] j = 2 -> b2
                         [] j = 3 -> b3 [] OTHER -> b4]

(* Frames the sensor may transmit: the frame of the documented scenario    *)
(* (65.2 %, 26.1 C), the same frame with a wrong checksum, and a frame     *)
(* with the top bits of humidity and temperature set, whose sum needs more *)
(* than 8 bits.                                                            *)
Frames ==
    { MkFrame(2, 140, 1, 5, 146),
      MkFrame(2, 140, 1, 5, 147),
      MkFrame(130, 140, 129, 5, 148) }

(* Lengths a disturbed pulse may take, by the kind of pulse. *)
FaultDurations(k) ==
    IF k = 0
    THEN {0, PULSE_TIMEOUT - 1, PULSE_TIMEOUT, PULSE_TIMEOUT + T_BIT_START}
    ELSE IF k <= 2 THEN {ACK_MIN - 1, ACK_MIN, ACK_MAX, ACK_MAX + 1}
    ELSE IF k % 2 = 1
    THEN {T_ONE, PULSE_TIMEOUT - 1, PULSE_TIMEOUT, PULSE_TIMEOUT + T_BIT_START}
    ELSE {T_BIT_START, PULSE_TIMEOUT - 1, PULSE_TIMEOUT,
          PULSE_TIMEOUT + T_BIT_START}

NoFault == [kind |-> "none", idx |-> 0, dur |-> 0]

(* The pulses the driver can measure: all but the end of transmission. *)
FaultIdx == 0 .. (LastPulse - 2)

Faults ==
    {NoFault}
    \cup UNION { { [kind |-> "dur", idx |-> k, dur |-> d] :
                       d \in FaultDurations(k) } : k \in FaultIdx }
    \cup [kind : {"stuck"}, idx : FaultIdx, dur : {0}]
    \cup [kind : {"slow"}, idx : {0, 3},
          dur : {PULSE_TIMEOUT, PULSE_TIMEOUT + 1}]

(* ---------------------------- u8 / u16 arithmetic ---------------------- *)

RECURSIVE Pow2(_)
Pow2(n) == IF n = 0 THEN 1 ELSE 2 * Pow2(n - 1)

RECURSIVE BitAnd(_, _)
BitAnd(a, b) ==
    IF a = 0 \/ b = 0 THEN 0
    ELSE ((a % 2) * (b % 2)) + 2 * BitAnd(a \div 2, b \div 2)

RECURSIVE BitOr(_, _)
BitOr(a, b) ==
    IF a = 0 THEN b
    ELSE IF b = 0 THEN a
    ELSE (IF (a % 2) + (b % 2) > 0 THEN 1 ELSE 0) + 2 * BitOr(a \div 2, b \div 2)

Shl8(a, n) == (a * Pow2(n)) % 256
Shl16(a, n) == (a * Pow2(n)) % 65536
AsU8(a) == a % 256
AddU16(a, b) == (a + b) % 65536

VARIABLES
    callerPc, op, reads, callResult, readResult,
    pinHeld, pinMode, pinPull, pinLevel,
    workerPc, i, pulse_length_low, pulse_length_high,
    bit_transfer_start_pulse_durations, pulse_durations,
    bytes, bits, numDecoded, threadResult,
    sensorFrame, fault, linePhase, lineInto,
    failure, events, responseDur,
    pollPc, pollWait, pollElapsed, pollLine, pollBroke, pollDuration,
    pollAckFailed, pollHighCut, pollHighOver, pollResult

vars == << callerPc, op, reads, callResult, readResult,
           pinHeld, pinMode, pinPull, pinLevel,
           workerPc, i, pulse_length_low, pulse_length_high,
           bit_transfer_start_pulse_durations, pulse_durations,
           bytes, bits, numDecoded, threadResult,
           sensorFrame, fault, linePhase, lineInto,
           failure, events, responseDur,
           pollPc, pollWait, pollElapsed, pollLine, pollBroke, pollDuration,
           pollAckFailed, pollHighCut, pollHighOver, pollResult >>

callerVars == << callerPc, op, reads, callResult, readResult >>
pinVars == << pinHeld, pinMode, pinPull, pinLevel >>
bufferVars == << pulse_length_low, pulse_length_high,
                 bit_transfer_start_pulse_durations, pulse_durations,
                 bytes, bits, numDecoded >>
lineVars == << sensorFrame, fault, linePhase, lineInto >>

(* The variables of the tick-level model of the pulse waits (PollSpec). *)
pollVars == << pollPc, pollWait, pollElapsed, pollLine, pollBroke, pollDuration,
               pollAckFailed, pollHighCut, pollHighOver, pollResult >>

mainVars == << callerVars, pinVars, workerPc, i, bufferVars, threadResult,
               lineVars, failure, events, responseDur >>

(* ---------------------------- results ---------------------------------- *)

NoResult == [tag |-> "None", kind |-> "", bytes |-> ZeroBytes]
OkBytes(b) == [tag |-> "Ok", kind |-> "", bytes |-> b]
ErrKind(k) == [tag |-> "Err", kind |-> k, bytes |-> ZeroBytes]

NoValue == [tag |-> "None", kind |-> "", value |-> 0]
OkValue(v) == [tag |-> "Ok", kind |-> "", value |-> v]
ErrValue(k) == [tag |-> "Err", kind |-> k, value |-> 0]

(* ---------------------------- the data line ---------------------------- *)

PulseLevel(k) == IF k % 2 = 0 THEN "High" ELSE "Low"

FrameBit(frame, n) == (frame[n \div 8] \div Pow2(7 - (n % 8))) % 2

NominalDur(k) ==
    IF k = 0 THEN T_RESPONSE
    ELSE IF k <= 2 THEN T_ACK
    ELSE IF k % 2 = 1 THEN T_BIT_START
    ELSE IF FrameBit(sensorFrame, (k - 4) \div 2) = 1 THEN T_ONE
    ELSE T_ZERO

PulseDur(k) ==
    IF fault.kind = "dur" /\ fault.idx = k THEN fault.dur
    ELSE IF fault.kind = "slow" /\ k >= fault.idx /\ k \notin {1, 2}
    THEN fault.dur
    ELSE NominalDur(k)

PulseForever(k) ==
    k >= LastPulse \/ (fault.kind = "stuck" /\ fault.idx = k)

(* The pulse the line is in, `into` ticks after pulse k began. *)
RECURSIVE Settle(_, _)
Settle(k, into) ==
    IF PulseForever(k) \/ into < PulseDur(k)
    THEN [phase |-> k, into |-> into]
    ELSE Settle(k + 1, into - PulseDur(k))

(* pin.read() on the input pin. *)
PinRead(k, into) == PulseLevel(Settle(k, into).phase)

(* ---------------------------- measure_pulse ---------------------------- *)

(* The polling loop reads the pin once per tick and leaves at the first    *)
(* tick where the level read differs from `level`, or after the first tick *)
(* where the level is still `level` and the elapsed time is above the      *)
(* timeout; the value is the elapsed time on leaving.  The ticks inside    *)
(* one pulse all read the same level, so the loop is followed pulse by     *)
(* pulse: a pulse of the awaited level that ends at or before tick         *)
(* `timeout` is waited out, and one that lasts longer cuts the wait off    *)
(* at tick timeout + 1.                                                    *)
RECURSIVE measure_pulse_loop(_, _, _, _, _)
measure_pulse_loop(level, timeout, k, into, elapsed) ==
    LET pos == Settle(k, into)
        left == PulseDur(pos.phase) - pos.into
    IN  IF PulseLevel(pos.phase) # level
        THEN [duration |-> elapsed, phase |-> pos.phase, into |-> pos.into]
        ELSE IF PulseForever(pos.phase) \/ elapsed + left > timeout
        THEN [duration |-> timeout + 1, phase |-> pos.phase,
              into |-> pos.into + (timeout + 1 - elapsed)]
        ELSE measure_pulse_loop(level, timeout, pos.phase + 1, 0, elapsed + left)

measure_pulse_DoubleTimeout(level, timeout) ==
    measure_pulse_loop(level, 2 * timeout, linePhase, lineInto, 0)

measure_pulse(level, timeout) ==
    measure_pulse_loop(level, timeout, linePhase, lineInto, 0)

(* ---------------------------- checks of the driver --------------------- *)

AckOutOfWindow_Strict(d) == d <= ACK_MIN \/ d >= ACK_MAX

(* lib.rs 102, 108: the pulse is rejected when < 70 us or > 90 us. *)
AckOutOfWindow(d) == d < ACK_MIN \/ d > ACK_MAX

PulseTimedOut_AtTimeout(d) == d >= PULSE_TIMEOUT

(* lib.rs 130 *)
PulseTimedOut(d) == d > PULSE_TIMEOUT

BitValue_OrEqual(high, low) == IF high >= low THEN 1 ELSE 0

(* lib.rs 134 *)
BitValue(high, low) == IF high > low THEN 1 ELSE 0

PackBit_LsbFirst(bs, n, bit) ==
    [bs EXCEPT ![n \div 8] = BitOr(bs[n \div 8], Shl8(bit, n % 8))]

(* lib.rs 137 *)
PackBit(bs, n, bit) ==
    [bs EXCEPT ![n \div 8] = BitOr(bs[n \div 8], Shl8(bit, 7 - (n % 8)))]

(* lib.rs 129-138: the validation loop; stops at the first High pulse      *)
(* above the timeout.                                                      *)
RECURSIVE ValidateFrom(_, _, _, _, _)
ValidateFrom(n, highs, lows, bs, bts) ==
    IF n = NUM_DATA_BITS
    THEN [timedOut |-> FALSE, bytes |-> bs, bits |-> bts, decoded |-> n]
    ELSE IF PulseTimedOut(highs[n])
    THEN [timedOut |-> TRUE, bytes |-> bs, bits |-> bts, decoded |-> n]
    ELSE LET bit_value == BitValue(highs[n], lows[n]) IN
         ValidateFrom(n + 1, highs, lows, PackBit(bs, n, bit_value),
                      [bts EXCEPT ![n] = bit_value])

ChecksumOf_Untruncated(bs) ==
    AddU16(AddU16(AddU16(bs[HUMIDITY_HIGH_BYTE_INDEX],
                         bs[HUMIDITY_LOW_BYTE_INDEX]),
                  bs[TEMPERATURE_HIGH_BYTE_INDEX]),
           bs[TEMPERATURE_LOW_BYTE_INDEX])

(* lib.rs 141 *)
ChecksumOf(bs) ==
    AsU8(AddU16(AddU16(AddU16(bs[HUMIDITY_HIGH_BYTE_INDEX],
                              bs[HUMIDITY_LOW_BYTE_INDEX]),
                       bs[TEMPERATURE_HIGH_BYTE_INDEX]),
                bs[TEMPERATURE_LOW_BYTE_INDEX]))

ChecksumFailed(bs) == bs[CHECKSUM_BYTE_INDEX] # ChecksumOf(bs)

(* ---------------------------- decoders --------------------------------- *)

TemperatureTenths_TwosComplement(bs) ==
    LET raw == BitOr(Shl16(bs[TEMPERATURE_HIGH_BYTE_INDEX], 8),
                     bs[TEMPERATURE_LOW_BYTE_INDEX])
    IN  IF raw >= 32768 THEN raw - 65536 ELSE raw

(* lib.rs 41-49, in tenths of a degree (the value before the 0.1 scale).   *)
TemperatureTenths(bs) ==
    LET temperature ==
            BitOr(Shl16(BitAnd(bs[TEMPERATURE_HIGH_BYTE_INDEX], 127), 8),
                  bs[TEMPERATURE_LOW_BYTE_INDEX])
    IN  IF BitAnd(bs[TEMPERATURE_HIGH_BYTE_INDEX], 128) # 0
        THEN 0 - temperature
        ELSE temperature

HumidityTenths_SignStripped(bs) ==
    BitOr(Shl16(BitAnd(bs[HUMIDITY_HIGH_BYTE_INDEX], 127), 8),
          bs[HUMIDITY_LOW_BYTE_INDEX])

(* lib.rs 55-58, in tenths of a percent. *)
HumidityTenths(bs) ==
    BitOr(Shl16(bs[HUMIDITY_HIGH_BYTE_INDEX], 8), bs[HUMIDITY_LOW_BYTE_INDEX])

dht22_read_humidity_Swallow(r) == OkValue(HumidityTenths(r.bytes))

(* `let read_bytes = self.dht22_read()?;` followed by the decoder. *)
dht22_read_temperature(r) ==
    IF r.tag = "Err" THEN ErrValue(r.kind) ELSE OkValue(TemperatureTenths(r.bytes))

dht22_read_humidity(r) ==
    IF r.tag = "Err" THEN ErrValue(r.kind) ELSE OkValue(HumidityTenths(r.bytes))

(* ---------------------------- initial state ---------------------------- *)

(* The tick-level model at rest. *)
PollIdle ==
    /\ pollPc = "off"
    /\ pollWait = 0
    /\ pollElapsed = 0
    /\ pollLine = "High"
    /\ pollBroke = FALSE
    /\ pollDuration = 0
    /\ pollAckFailed = FALSE
    /\ pollHighCut = FALSE
    /\ pollHighOver = FALSE
    /\ pollResult = "none"

(* The history of the current call: one entry per step taken. *)
Log(e) == events' = Append(events, e)

DriveEvent(level) == IF level = "High" THEN "set_high" ELSE "set_low"
MeasureEvent(level) == IF level = "High" THEN "measure_high" ELSE "measure_low"

ZeroBits == [k \in BitIdx |-> 0]

Init ==
    /\ callerPc = "idle"
    /\ op = "none"
    /\ reads = 0
    /\ callResult = NoValue
    /\ readResult = NoResult
    /\ pinHeld = FALSE
    /\ pinMode = "Input"
    /\ pinPull = "Off"
    /\ pinLevel = "Low"
    /\ workerPc = "none"
    /\ i = 0
    /\ pulse_length_low = 0
    /\ pulse_length_high = 0
    /\ bit_transfer_start_pulse_durations = ZeroDurations
    /\ pulse_durations = ZeroDurations
    /\ bytes = ZeroBytes
    /\ bits = ZeroBits
    /\ numDecoded = 0
    /\ threadResult = NoResult
    /\ sensorFrame = ZeroBytes
    /\ fault = NoFault
    /\ linePhase = 0
    /\ lineInto = 0
    /\ failure = "none"
    /\ events = << >>
    /\ responseDur = 0
    /\ PollIdle

(* ---------------------------- the caller ------------------------------- *)

Call_Cached(o) ==
    /\ callerPc = "idle"
    /\ reads < MaxReads
    /\ callerPc' = IF callResult.tag = "Ok" THEN "decode" ELSE "get_pin"
    /\ op' = o
    /\ reads' = reads + 1
    /\ callResult' = NoValue
    /\ readResult' = IF callResult.tag = "Ok" THEN readResult ELSE NoResult
    /\ workerPc' = "none"
    /\ i' = 0
    /\ pulse_length_low' = 0
    /\ pulse_length_high' = 0
    /\ bit_transfer_start_pulse_durations' = ZeroDurations
    /\ pulse_durations' = ZeroDurations
    /\ bytes' = ZeroBytes
    /\ bits' = ZeroBits
    /\ numDecoded' = 0
    /\ threadResult' = NoResult
    /\ sensorFrame' = ZeroBytes
    /\ fault' = NoFault
    /\ linePhase' = 0
    /\ lineInto' = 0
    /\ failure' = "none"
    /\ events' = << >>
    /\ responseDur' = 0
    /\ UNCHANGED pinVars
    /\ UNCHANGED pollVars

(* main.rs 16, 19: the caller invokes one of the two read operations on    *)
(* the handle; the locals of the transaction start fresh.                  *)
Call(o) ==
    /\ callerPc = "idle"
    /\ reads < MaxReads
    /\ callerPc' = "get_pin"
    /\ op' = o
    /\ reads' = reads + 1
    /\ callResult' = NoValue
    /\ readResult' = NoResult
    /\ workerPc' = "none"
    /\ i' = 0
    /\ pulse_length_low' = 0
    /\ pulse_length_high' = 0
    /\ bit_transfer_start_pulse_durations' = ZeroDurations
    /\ pulse_durations' = ZeroDurations
    /\ bytes' = ZeroBytes
    /\ bits' = ZeroBits
    /\ numDecoded' = 0
    /\ threadResult' = NoResult
    /\ sensorFrame' = ZeroBytes
    /\ fault' = NoFault
    /\ linePhase' = 0
    /\ lineInto' = 0
    /\ failure' = "none"
    /\ events' = << >>
    /\ responseDur' = 0
    /\ UNCHANGED pinVars
    /\ UNCHANGED pollVars

(* lib.rs 62-63: gpio.get succeeds, the pin becomes an IoPin in Output      *)
(* mode.  The backend hands a pin out only while no other Pin holds it.    *)
GetPinOk ==
    /\ callerPc = "get_pin"
    /\ ~ pinHeld
    /\ callerPc' = "spawn"
    /\ pinHeld' = TRUE
    /\ pinMode' = "Output"
    /\ UNCHANGED << op, reads, callResult, readResult, pinPull, pinLevel,
                    workerPc, i, bufferVars, threadResult, lineVars, failure >>
    /\ Log("get_pin")
    /\ UNCHANGED responseDur
    /\ UNCHANGED pollVars

(* lib.rs 64-66: gpio.get fails, dht22_read returns the error. *)
GetPinErr ==
    /\ callerPc = "get_pin"
    /\ callerPc' = "decode"
    /\ readResult' = ErrKind("Other")
    /\ failure' = "acquire"
    /\ UNCHANGED << op, reads, callResult, pinVars,
                    workerPc, i, bufferVars, threadResult, lineVars >>
    /\ Log("get_pin_failed")
    /\ UNCHANGED responseDur
    /\ UNCHANGED pollVars

(* lib.rs 71-74, 146: the worker thread starts. *)
SpawnOk ==
    /\ callerPc = "spawn"
    /\ callerPc' = "join"
    /\ workerPc' = "set_pullup"
    /\ UNCHANGED << op, reads, callResult, readResult, pinVars,
                    i, bufferVars, threadResult, lineVars, failure >>
    /\ Log("spawn")
    /\ UNCHANGED responseDur
    /\ UNCHANGED pollVars

(* lib.rs 146: spawn fails, `?` returns its error; the closure, and the    *)
(* pin it owns, are dropped.                                               *)
SpawnErr ==
    /\ callerPc = "spawn"
    /\ callerPc' = "decode"
    /\ readResult' = ErrKind("SpawnOsError")
    /\ pinHeld' = FALSE
    /\ failure' = "spawn"
    /\ UNCHANGED << op, reads, callResult, pinMode, pinPull, pinLevel,
                    workerPc, i, bufferVars, threadResult, lineVars >>
    /\ Log("spawn_failed")
    /\ UNCHANGED responseDur
    /\ UNCHANGED pollVars

Join_NoWait ==
    /\ callerPc = "join"
    /\ workerPc # "none"
    /\ callerPc' = "decode"
    /\ readResult' = threadResult
    /\ workerPc' = workerPc
    /\ UNCHANGED << op, reads, callResult, pinVars,
                    i, bufferVars, threadResult, lineVars, failure >>
    /\ Log("join")
    /\ UNCHANGED responseDur
    /\ UNCHANGED pollVars

(* lib.rs 148: join yields what the closure returned. *)
Join ==
    /\ callerPc = "join"
    /\ workerPc = "done"
    /\ callerPc' = "decode"
    /\ readResult' = threadResult
    /\ workerPc' = "joined"
    /\ UNCHANGED << op, reads, callResult, pinVars,
                    i, bufferVars, threadResult, lineVars, failure >>
    /\ Log("join")
    /\ UNCHANGED responseDur
    /\ UNCHANGED pollVars

(* lib.rs 39-49, 53-58: `?` on the result of dht22_read, then the decoder. *)
Decode ==
    /\ callerPc = "decode"
    /\ callerPc' = "idle"
    /\ callResult' = IF op = "temperature"
                     THEN dht22_read_temperature(readResult)
                     ELSE dht22_read_humidity(readResult)
    /\ UNCHANGED << op, reads, readResult, pinVars,
                    workerPc, i, bufferVars, threadResult, lineVars, failure >>
    /\ Log("decode")
    /\ UNCHANGED responseDur
    /\ UNCHANGED pollVars

(* ---------------------------- the worker ------------------------------- *)

workerRest == << callerVars, i, bufferVars, threadResult, lineVars, failure >>

SetPullUp_Off ==
    /\ workerPc = "set_pullup"
    /\ workerPc' = "set_output"
    /\ pinPull' = "Off"
    /\ UNCHANGED << workerRest, pinHeld, pinMode, pinLevel >>
    /\ Log("set_pullup")
    /\ UNCHANGED responseDur
    /\ UNCHANGED pollVars

(* lib.rs 77 *)
SetPullUp ==
    /\ workerPc = "set_pullup"
    /\ workerPc' = "set_output"
    /\ pinPull' = "PullUp"
    /\ UNCHANGED << workerRest, pinHeld, pinMode, pinLevel >>
    /\ Log("set_pullup")
    /\ UNCHANGED responseDur
    /\ UNCHANGED pollVars

(* lib.rs 80 *)
SetOutput ==
    /\ workerPc = "set_output"
    /\ workerPc' = "set_high_idle"
    /\ pinMode' = "Output"
    /\ UNCHANGED << workerRest, pinHeld, pinPull, pinLevel >>
    /\ Log("set_output")
    /\ UNCHANGED responseDur
    /\ UNCHANGED pollVars

(* lib.rs 81 *)
SetHighIdle ==
    /\ workerPc = "set_high_idle"
    /\ workerPc' = "sleep_idle"
    /\ pinLevel' = "High"
    /\ UNCHANGED << workerRest, pinHeld, pinMode, pinPull >>
    /\ Log(DriveEvent(pinLevel'))
    /\ UNCHANGED responseDur
    /\ UNCHANGED pollVars

(* lib.rs 82 *)
SleepIdle ==
    /\ workerPc = "sleep_idle"
    /\ workerPc' = "set_low"
    /\ UNCHANGED << workerRest, pinVars >>
    /\ Log("sleep_1000us")
    /\ UNCHANGED responseDur
    /\ UNCHANGED pollVars

SetLow_DrivesHigh ==
    /\ workerPc = "set_low"
    /\ workerPc' = "sleep_start"
    /\ pinLevel' = "High"
    /\ UNCHANGED << workerRest, pinHeld, pinMode, pinPull >>
    /\ Log(DriveEvent(pinLevel'))
    /\ UNCHANGED responseDur
    /\ UNCHANGED pollVars

(* lib.rs 86 *)
SetLow ==
    /\ workerPc = "set_low"
    /\ workerPc' = "sleep_start"
    /\ pinLevel' = "Low"
    /\ UNCHANGED << workerRest, pinHeld, pinMode, pinPull >>
    /\ Log(DriveEvent(pinLevel'))
    /\ UNCHANGED responseDur
    /\ UNCHANGED pollVars

(* lib.rs 87 *)
SleepStart ==
    /\ workerPc = "sleep_start"
    /\ workerPc' = "set_high_release"
    /\ UNCHANGED << workerRest, pinVars >>
    /\ Log("sleep_1100us")
    /\ UNCHANGED responseDur
    /\ UNCHANGED pollVars

(* lib.rs 91 *)
SetHighRelease ==
    /\ workerPc = "set_high_release"
    /\ workerPc' = "set_input"
    /\ pinLevel' = "High"
    /\ UNCHANGED << workerRest, pinHeld, pinMode, pinPull >>
    /\ Log(DriveEvent(pinLevel'))
    /\ UNCHANGED responseDur
    /\ UNCHANGED pollVars

(* lib.rs 96: the pin becomes an input; from here the sensor drives the    *)
(* line with the pulse train of one frame and one fault.                   *)
SetInput ==
    /\ workerPc = "set_input"
    /\ workerPc' = "measure_response"
    /\ pinMode' = "Input"
    /\ \E f \in Frames, x \in Faults :
          /\ sensorFrame' = f
          /\ fault' = x
    /\ linePhase' = 0
    /\ lineInto' = 0
    /\ UNCHANGED << callerVars, i, bufferVars, threadResult, failure,
                    pinHeld, pinPull, pinLevel >>
    /\ Log("set_input")
    /\ UNCHANGED responseDur
    /\ UNCHANGED pollVars

Return_KeepsPin(r, why) ==
    /\ workerPc' = "done"
    /\ threadResult' = r
    /\ pinHeld' = pinHeld
    /\ failure' = why

(* The closure returns r: the thread ends and the pin it owns is dropped.  *)
(* `failure` records the check that ended the transaction.                 *)
Return(r, why) ==
    /\ workerPc' = "done"
    /\ threadResult' = r
    /\ pinHeld' = FALSE
    /\ failure' = why

MeasureResponse_Validated ==
    /\ workerPc = "measure_response"
    /\ LET m == measure_pulse("High", PULSE_TIMEOUT) IN
          /\ linePhase' = m.phase
          /\ lineInto' = m.into
          /\ responseDur' = m.duration
          /\ IF m.duration < T_RESPONSE \/ m.duration > 2 * T_RESPONSE
             THEN Return(ErrKind("TimedOut"), "response")
             ELSE /\ workerPc' = "measure_ack_low"
                  /\ UNCHANGED << threadResult, pinHeld, failure >>
    /\ UNCHANGED << callerVars, pinMode, pinPull, pinLevel, i, bufferVars,
                    sensorFrame, fault >>
    /\ Log(MeasureEvent("High"))
    /\ UNCHANGED pollVars

(* lib.rs 97: the length of the first High phase is discarded. *)
MeasureResponse ==
    /\ workerPc = "measure_response"
    /\ LET m == measure_pulse("High", PULSE_TIMEOUT) IN
          /\ linePhase' = m.phase
          /\ lineInto' = m.into
          /\ responseDur' = m.duration
    /\ workerPc' = "measure_ack_low"
    /\ UNCHANGED << callerVars, pinVars, i, bufferVars, threadResult,
                    sensorFrame, fault, failure >>
    /\ Log(MeasureEvent("High"))
    /\ UNCHANGED pollVars

(* lib.rs 101-104 *)
MeasureAckLow ==
    /\ workerPc = "measure_ack_low"
    /\ LET m == measure_pulse("Low", PULSE_TIMEOUT) IN
          /\ linePhase' = m.phase
          /\ lineInto' = m.into
          /\ pulse_length_low' = m.duration
          /\ IF AckOutOfWindow(m.duration)
             THEN Return(ErrKind("TimedOut"), "ack_low")
             ELSE /\ workerPc' = "measure_ack_high"
                  /\ UNCHANGED << threadResult, pinHeld, failure >>
    /\ UNCHANGED << callerVars, pinMode, pinPull, pinLevel, i, pulse_length_high,
                    bit_transfer_start_pulse_durations, pulse_durations,
                    bytes, bits, numDecoded, sensorFrame, fault >>
    /\ Log(MeasureEvent("Low"))
    /\ UNCHANGED responseDur
    /\ UNCHANGED pollVars

(* lib.rs 107-110 *)
MeasureAckHigh ==
    /\ workerPc = "measure_ack_high"
    /\ LET m == measure_pulse("High", PULSE_TIMEOUT) IN
          /\ linePhase' = m.phase
          /\ lineInto' = m.into
          /\ pulse_length_high' = m.duration
          /\ IF AckOutOfWindow(m.duration)
             THEN Return(ErrKind("TimedOut"), "ack_high")
             ELSE /\ workerPc' = "measure_low"
                  /\ UNCHANGED << threadResult, pinHeld, failure >>
    /\ UNCHANGED << callerVars, pinMode, pinPull, pinLevel, i, pulse_length_low,
                    bit_transfer_start_pulse_durations, pulse_durations,
                    bytes, bits, numDecoded, sensorFrame, fault >>
    /\ Log(MeasureEvent("High"))
    /\ UNCHANGED responseDur
    /\ UNCHANGED pollVars

(* lib.rs 122 *)
MeasureLow ==
    /\ workerPc = "measure_low"
    /\ LET m == measure_pulse("Low", PULSE_TIMEOUT) IN
          /\ linePhase' = m.phase
          /\ lineInto' = m.into
          /\ bit_transfer_start_pulse_durations' =
                [bit_transfer_start_pulse_durations EXCEPT ![i] = m.duration]
    /\ workerPc' = "measure_high"
    /\ UNCHANGED << callerVars, pinVars, i, pulse_length_low, pulse_length_high,
                    pulse_durations, bytes, bits, numDecoded, threadResult,
                    sensorFrame, fault, failure >>
    /\ Log(MeasureEvent("Low"))
    /\ UNCHANGED responseDur
    /\ UNCHANGED pollVars

(* lib.rs 121, 123-124 *)
MeasureHigh ==
    /\ workerPc = "measure_high"
    /\ LET m == measure_pulse("High", PULSE_TIMEOUT) IN
          /\ linePhase' = m.phase
          /\ lineInto' = m.into
          /\ pulse_durations' = [pulse_durations EXCEPT ![i] = m.duration]
    /\ i' = i + 1
    /\ workerPc' = IF i + 1 < NUM_DATA_BITS THEN "measure_low" ELSE "validate"
    /\ UNCHANGED << callerVars, pinVars, pulse_length_low, pulse_length_high,
                    bit_transfer_start_pulse_durations, bytes, bits, numDecoded,
                    threadResult, sensorFrame, fault, failure >>
    /\ Log(MeasureEvent("High"))
    /\ UNCHANGED responseDur
    /\ UNCHANGED pollVars

(* lib.rs 128-138 *)
Validate ==
    /\ workerPc = "validate"
    /\ LET v == ValidateFrom(0, pulse_durations,
                             bit_transfer_start_pulse_durations,
                             ZeroBytes, ZeroBits) IN
          /\ bytes' = v.bytes
          /\ bits' = v.bits
          /\ numDecoded' = v.decoded
          /\ IF v.timedOut
             THEN Return(ErrKind("TimedOut"), "pulse_timeout")
             ELSE /\ workerPc' = "checksum"
                  /\ UNCHANGED << threadResult, pinHeld, failure >>
    /\ UNCHANGED << callerVars, pinMode, pinPull, pinLevel, i,
                    pulse_length_low, pulse_length_high,
                    bit_transfer_start_pulse_durations, pulse_durations,
                    lineVars >>
    /\ Log("validate")
    /\ UNCHANGED responseDur
    /\ UNCHANGED pollVars

(* lib.rs 141-145 *)
Checksum ==
    /\ workerPc = "checksum"
    /\ IF ChecksumFailed(bytes)
       THEN Return(ErrKind("InvalidData"), "checksum")
       ELSE Return(OkBytes(bytes), "none")
    /\ UNCHANGED << callerVars, pinMode, pinPull, pinLevel, i, bufferVars,
                    lineVars >>
    /\ Log("checksum")
    /\ UNCHANGED responseDur
    /\ UNCHANGED pollVars

Next ==
    \/ \E o \in {"temperature", "humidity"} : Call(o)
    \/ GetPinOk
    \/ GetPinErr
    \/ SpawnOk
    \/ SpawnErr
    \/ Join
    \/ Decode
    \/ SetPullUp
    \/ SetOutput
    \/ SetHighIdle
    \/ SleepIdle
    \/ SetLow
    \/ SleepStart
    \/ SetHighRelease
    \/ SetInput
    \/ MeasureResponse
    \/ MeasureAckLow
    \/ MeasureAckHigh
    \/ MeasureLow
    \/ MeasureHigh
    \/ Validate
    \/ Checksum

Spec == Init /\ [][Next]_vars

(* ----------------------------------------------------------------------- *)
(* The worker of one transaction poll by poll, against a line that may     *)
(* change level at any moment.  The clock advances in steps of PollTick    *)
(* microseconds; a wait is followed for at most MaxOvershoot further       *)
(* clock steps once its limit has passed.  Of the frame only what decides  *)
(* between the timeout error and the checksum stage is kept.               *)
PollTick == 10
MaxOvershoot == 2

SLEEP_IDLE_US == 1000
SLEEP_START_US == 1100

LastWait == 2 + 2 * NUM_DATA_BITS

(* The level the n-th measure_pulse call of dht22_read waits on. *)
TargetLevel(n) == IF n = 0 \/ n % 2 = 0 THEN "High" ELSE "Low"

IsAckWait(n) == n \in {1, 2}
IsDataHighWait(n) == n >= 4 /\ n % 2 = 0

ClockLimit ==
    CASE pollPc = "sleep_idle" -> SLEEP_IDLE_US
      [] pollPc = "sleep_start" -> SLEEP_START_US
      [] OTHER -> PULSE_TIMEOUT

(* The monotonic clock advances. *)
ClockTick ==
    /\ pollPc \in {"sleep_idle", "sleep_start", "read", "check", "exit"}
    /\ pollElapsed < ClockLimit + MaxOvershoot * PollTick
    /\ pollElapsed' = pollElapsed + PollTick
    /\ UNCHANGED << pollPc, pollWait, pollLine, pollBroke, pollDuration,
                    pollAckFailed, pollHighCut, pollHighOver, pollResult >>
    /\ UNCHANGED mainVars

(* The sensor, or noise, changes the level of the line. *)
LineFlip ==
    /\ pollPc \in {"read", "check", "exit"}
    /\ pollLine' = IF pollLine = "High" THEN "Low" ELSE "High"
    /\ UNCHANGED << pollPc, pollWait, pollElapsed, pollBroke, pollDuration,
                    pollAckFailed, pollHighCut, pollHighOver, pollResult >>
    /\ UNCHANGED mainVars

(* lib.rs 77-82: the worker starts, drives the line High and sleeps. *)
PollStart ==
    /\ pollPc = "off"
    /\ pollPc' = "sleep_idle"
    /\ pollElapsed' = 0
    /\ UNCHANGED << pollWait, pollLine, pollBroke, pollDuration,
                    pollAckFailed, pollHighCut, pollHighOver, pollResult >>
    /\ UNCHANGED mainVars

(* lib.rs 82-87: the 1 ms sleep is over, the line is driven Low. *)
PollSleepIdle ==
    /\ pollPc = "sleep_idle"
    /\ pollElapsed >= SLEEP_IDLE_US
    /\ pollPc' = "sleep_start"
    /\ pollElapsed' = 0
    /\ UNCHANGED << pollWait, pollLine, pollBroke, pollDuration,
                    pollAckFailed, pollHighCut, pollHighOver, pollResult >>
    /\ UNCHANGED mainVars

(* lib.rs 87-97, 155: the 1.1 ms sleep is over, the line is released and   *)
(* the first measure_pulse call reads the clock.                           *)
PollSleepStart ==
    /\ pollPc = "sleep_start"
    /\ pollElapsed >= SLEEP_START_US
    /\ pollPc' = "read"
    /\ pollWait' = 0
    /\ pollElapsed' = 0
    /\ UNCHANGED << pollLine, pollBroke, pollDuration,
                    pollAckFailed, pollHighCut, pollHighOver, pollResult >>
    /\ UNCHANGED mainVars

(* lib.rs 157: while pin.read() == level *)
PollRead ==
    /\ pollPc = "read"
    /\ pollPc' = IF pollLine = TargetLevel(pollWait) THEN "check" ELSE "exit"
    /\ UNCHANGED << pollWait, pollElapsed, pollLine, pollBroke, pollDuration,
                    pollAckFailed, pollHighCut, pollHighOver, pollResult >>
    /\ UNCHANGED mainVars

PollCheck_NoTimeout ==
    /\ pollPc = "check"
    /\ pollPc' = "read"
    /\ pollBroke' = FALSE
    /\ UNCHANGED << pollWait, pollElapsed, pollLine, pollDuration,
                    pollAckFailed, pollHighCut, pollHighOver, pollResult >>
    /\ UNCHANGED mainVars

PollCheck_AtTimeout ==
    /\ pollPc = "check"
    /\ IF pollElapsed >= PULSE_TIMEOUT
       THEN /\ pollPc' = "exit"
            /\ pollBroke' = TRUE
       ELSE /\ pollPc' = "read"
            /\ pollBroke' = FALSE
    /\ UNCHANGED << pollWait, pollElapsed, pollLine, pollDuration,
                    pollAckFailed, pollHighCut, pollHighOver, pollResult >>
    /\ UNCHANGED mainVars

(* lib.rs 158-160: if now.elapsed() > timeout { break; } *)
PollCheck ==
    /\ pollPc = "check"
    /\ IF pollElapsed > PULSE_TIMEOUT
       THEN /\ pollPc' = "exit"
            /\ pollBroke' = TRUE
       ELSE /\ pollPc' = "read"
            /\ pollBroke' = FALSE
    /\ UNCHANGED << pollWait, pollElapsed, pollLine, pollDuration,
                    pollAckFailed, pollHighCut, pollHighOver, pollResult >>
    /\ UNCHANGED mainVars

(* lib.rs 163: the clock is read once more and that value is returned. *)
PollReturn ==
    /\ pollPc = "exit"
    /\ pollPc' = "use"
    /\ pollDuration' = pollElapsed
    /\ UNCHANGED << pollWait, pollElapsed, pollLine, pollBroke,
                    pollAckFailed, pollHighCut, pollHighOver, pollResult >>
    /\ UNCHANGED mainVars

(* lib.rs 97-124: what dht22_read does with the returned duration: the     *)
(* first is dropped, the acknowledgement pulses are checked at once, the   *)
(* data-phase durations are stored and the next measure_pulse call starts. *)
PollUse ==
    /\ pollPc = "use"
    /\ IF IsAckWait(pollWait) /\ AckOutOfWindow(pollDuration)
       THEN /\ pollPc' = "done"
            /\ pollResult' = "TimedOut"
            /\ pollAckFailed' = TRUE
            /\ UNCHANGED << pollWait, pollHighCut, pollHighOver >>
       ELSE /\ pollPc' = IF pollWait = LastWait THEN "validate" ELSE "read"
            /\ pollWait' = IF pollWait = LastWait THEN pollWait ELSE pollWait + 1
            /\ pollHighCut' =
                  (pollHighCut \/ (IsDataHighWait(pollWait) /\ pollBroke))
            /\ pollHighOver' =
                  (pollHighOver
                      \/ (IsDataHighWait(pollWait) /\ PulseTimedOut(pollDuration)))
            /\ UNCHANGED << pollResult, pollAckFailed >>
    /\ pollElapsed' = 0
    /\ pollDuration' = 0
    /\ pollBroke' = FALSE
    /\ UNCHANGED pollLine
    /\ UNCHANGED mainVars

(* lib.rs 128-145: a stored High duration over the timeout gives the       *)
(* timeout error, otherwise the frame goes to the checksum, which returns  *)
(* the bytes or the corrupt-data error.                                    *)
PollValidate ==
    /\ pollPc = "validate"
    /\ pollPc' = "done"
    /\ pollResult' = IF pollHighOver THEN "TimedOut" ELSE "Decoded"
    /\ UNCHANGED << pollWait, pollElapsed, pollLine, pollBroke, pollDuration,
                    pollAckFailed, pollHighCut, pollHighOver >>
    /\ UNCHANGED mainVars

(* The steps of the worker thread. *)
PollWorker ==
    \/ PollStart
    \/ PollSleepIdle
    \/ PollSleepStart
    \/ PollRead
    \/ PollCheck
    \/ PollReturn
    \/ PollUse
    \/ PollValidate

PollNext ==
    \/ ClockTick
    \/ LineFlip
    \/ PollStart
    \/ PollSleepIdle
    \/ PollSleepStart
    \/ PollRead
    \/ PollCheck
    \/ PollReturn
    \/ PollUse
    \/ PollValidate

(* The worker is a running thread of the highest priority, so it keeps     *)
(* taking steps, and the clock advances; nothing is assumed of the line.   *)
PollSpec ==
    /\ Init
    /\ [][PollNext]_vars
    /\ WF_vars(PollWorker)
    /\ WF_vars(ClockTick)

(* ======================================================================= *)
(* Properties                                                              *)
(* ======================================================================= *)

WorkerOrder ==
    << "none", "set_pullup", "set_output", "set_high_idle", "sleep_idle",
       "set_low", "sleep_start", "set_high_release", "set_input",
       "measure_response", "measure_ack_low", "measure_ack_high",
       "measure_low", "measure_high", "validate", "checksum", "done",
       "joined" >>

Rank(pc) == CHOOSE n \in 1 .. Len(WorkerOrder) : WorkerOrder[n] = pc

(* The worker is past the step `pc`. *)
Past(pc) ==
    IF pc \in {"measure_low", "measure_high"}
    THEN Rank(workerPc) > Rank("measure_high")
    ELSE Rank(workerPc) > Rank(pc)

TimedOutResult == ErrKind("TimedOut")
CorruptResult == ErrKind("InvalidData")

Returned == workerPc \in {"done", "joined"}

(* The validation loop has run on 40 measured slots. *)
ValidationRan == i = NUM_DATA_BITS /\ Past("validate")

InAckWindow(d) == d >= ACK_MIN /\ d <= ACK_MAX

C2_BitStartTimeoutFails ==
    ( /\ Returned
      /\ InAckWindow(pulse_length_low)
      /\ InAckWindow(pulse_length_high)
      /\ \A n \in BitIdx :
            bit_transfer_start_pulse_durations[n] >= PULSE_TIMEOUT )
        => threadResult = TimedOutResult

(* ----------------------------------------------------------------------- *)
(* C3: once an acknowledgement pulse is measured, the transaction has      *)
(* failed at that pulse with the timeout error iff the duration is outside *)
(* 70..90 us inclusive; inside the window it went on to the next step.     *)
C3_AckWindow ==
    /\ Past("measure_ack_low") =>
          IF InAckWindow(pulse_length_low)
          THEN failure # "ack_low"
          ELSE /\ failure = "ack_low"
               /\ Returned
               /\ threadResult = TimedOutResult
    /\ (Past("measure_ack_high") /\ failure # "ack_low") =>
          IF InAckWindow(pulse_length_high)
          THEN failure # "ack_high"
          ELSE /\ failure = "ack_high"
               /\ Returned
               /\ threadResult = TimedOutResult
    /\ workerPc = "measure_ack_high" => InAckWindow(pulse_length_low)
    /\ workerPc \in {"measure_low", "measure_high"} =>
          InAckWindow(pulse_length_low) /\ InAckWindow(pulse_length_high)

C3_Witness ==
    /\ workerPc = "measure_low"
    /\ i = 0
    /\ pulse_length_low = ACK_MIN
    /\ pulse_length_high = T_ACK

C5_MsbFirstPacking ==
    ValidationRan =>
        /\ \A n \in BitIdx :
              (bytes[n \div 8] \div Pow2(7 - (n % 8))) % 2
                  = (IF n < numDecoded THEN bits[n] ELSE 0)
        /\ \A j \in ByteIdx : bytes[j] \in 0 .. 255

C5_Witness ==
    /\ ValidationRan
    /\ numDecoded = NUM_DATA_BITS
    /\ bytes = MkFrame(2, 140, 1, 5, 146)

(* ----------------------------------------------------------------------- *)
(* C6: a transaction whose timing checks passed returns the frame iff      *)
(* byte 4 = (byte0 + byte1 + byte2 + byte3) mod 256, and the               *)
(* data-corruption error otherwise.                                        *)
C6_Checksum ==
    (Returned /\ numDecoded = NUM_DATA_BITS) =>
        IF bytes[4] = (bytes[0] + bytes[1] + bytes[2] + bytes[3]) % 256
        THEN threadResult = OkBytes(bytes)
        ELSE threadResult = CorruptResult

C6_Witness ==
    /\ Returned
    /\ threadResult = OkBytes(MkFrame(130, 140, 129, 5, 148))

(* ----------------------------------------------------------------------- *)
(* C7 as stated: a returned transaction has exactly one of the three       *)
(* outcomes, and whenever a timing failure applies (an acknowledgement     *)
(* pulse outside 70..90 us, or a data-phase wait, Low or High, that ran    *)
(* past the 200 us timeout) the outcome is the timeout error, whatever the *)
(* checksum.                                                               *)
TimingFailure ==
    \/ ~ InAckWindow(pulse_length_low)
    \/ ~ InAckWindow(pulse_length_high)
    \/ \E n \in BitIdx : pulse_durations[n] > PULSE_TIMEOUT
    \/ \E n \in BitIdx : bit_transfer_start_pulse_durations[n] > PULSE_TIMEOUT

C7_FirstFailureWins ==
    Returned =>
        /\ \/ threadResult.tag = "Ok" /\ threadResult.kind = ""
           \/ threadResult = TimedOutResult
           \/ threadResult = CorruptResult
        /\ TimingFailure => threadResult = TimedOutResult

(* ----------------------------------------------------------------------- *)
(* C8: when a read call has returned, the caller holds an error of the     *)
(* kind of the failure that happened (acquisition, worker start, timeout,  *)
(* checksum), and holds a decoded reading only when nothing failed.        *)
FailureKind(why) ==
    CASE why = "acquire" -> "Other"
      [] why = "spawn" -> "SpawnOsError"
      [] why \in {"ack_low", "ack_high", "pulse_timeout"} -> "TimedOut"
      [] why = "checksum" -> "InvalidData"
      [] OTHER -> ""

CallReturned == callerPc = "idle" /\ reads > 0

C8_FailuresPropagate ==
    CallReturned =>
        /\ failure # "none" => callResult = ErrValue(FailureKind(failure))
        /\ failure = "none" => callResult.tag = "Ok"
        /\ callResult.tag = "Ok" => readResult.tag = "Ok"

C8_Witness ==
    /\ CallReturned
    /\ op = "humidity"
    /\ failure = "checksum"
    /\ callResult = ErrValue("InvalidData")

(* ----------------------------------------------------------------------- *)
(* C9: a temperature read that succeeded returns, in tenths of a degree,   *)
(* the magnitude (byte2 mod 128) * 256 + byte3 of the frame, negated when  *)
(* byte2 >= 128.                                                           *)
C9_TemperatureSignMagnitude ==
    (CallReturned /\ op = "temperature" /\ callResult.tag = "Ok") =>
        LET b == readResult.bytes
            magnitude == (b[2] % 128) * 256 + b[3]
        IN  callResult.value = (IF b[2] >= 128 THEN 0 - magnitude ELSE magnitude)

C9_Witness ==
    /\ CallReturned
    /\ op = "temperature"
    /\ readResult.tag = "Ok"
    /\ readResult.bytes[2] = 129
    /\ readResult.bytes[3] = 5
    /\ callResult = OkValue(0 - 261)

(* ----------------------------------------------------------------------- *)
(* C10: a humidity read that succeeded returns, in tenths of a percent,    *)
(* byte0 * 256 + byte1 of the frame, a value in 0..65535.                  *)
C10_HumidityUnsigned ==
    (CallReturned /\ op = "humidity" /\ callResult.tag = "Ok") =>
        LET b == readResult.bytes IN
            /\ callResult.value = b[0] * 256 + b[1]
            /\ callResult.value \in 0 .. 65535

C10_Witness ==
    /\ CallReturned
    /\ op = "humidity"
    /\ readResult.tag = "Ok"
    /\ readResult.bytes[0] = 130
    /\ callResult = OkValue(130 * 256 + 140)

(* ----------------------------------------------------------------------- *)
(* What the calls of one read did, in the order they happened.             *)
CallerEvents ==
    {"get_pin", "get_pin_failed", "spawn", "spawn_failed", "join", "decode"}

IsWorkerEvent(e) == e \notin CallerEvents

WorkerEvents == SelectSeq(events, IsWorkerEvent)

Count(e) == Cardinality({n \in 1 .. Len(events) : events[n] = e})

StartSignalOrder ==
    << "set_pullup", "set_output", "set_high", "sleep_1000us", "set_low",
       "sleep_1100us", "set_high", "set_input" >>

HandshakeOrder == << "measure_high", "measure_low", "measure_high" >>

DataPhaseOrder ==
    [n \in 1 .. 2 * NUM_DATA_BITS |->
        IF n % 2 = 1 THEN "measure_low" ELSE "measure_high"]

TransactionOrder ==
    StartSignalOrder \o HandshakeOrder \o DataPhaseOrder
        \o << "validate", "checksum" >>

IsPrefix(s, t) ==
    /\ Len(s) <= Len(t)
    /\ \A n \in 1 .. Len(s) : s[n] = t[n]

(* The reading a frame stands for, by arithmetic on its five bytes. *)
ReadingOf(o, f) ==
    IF (f[0] + f[1] + f[2] + f[3]) % 256 # f[4]
    THEN ErrValue("InvalidData")
    ELSE IF o = "humidity"
    THEN OkValue(f[0] * 256 + f[1])
    ELSE IF f[2] >= 128
    THEN OkValue(0 - ((f[2] - 128) * 256 + f[3]))
    ELSE OkValue(f[2] * 256 + f[3])

(* ----------------------------------------------------------------------- *)
(* C11: every call of dht22_read_temperature or dht22_read_humidity makes  *)
(* exactly one pin acquisition attempt and, when pin and thread are        *)
(* obtained, exactly one transaction of its own; a transaction that        *)
(* reaches the checksum carried out every step once, and on an undisturbed *)
(* line the call returns the reading of the frame the sensor sent during   *)
(* this call, never a value kept from an earlier call.                     *)
C11_FreshTransactionPerCall ==
    CallReturned =>
        /\ Count("get_pin") + Count("get_pin_failed") = 1
        /\ Count("spawn") + Count("spawn_failed")
              = (IF failure = "acquire" THEN 0 ELSE 1)
        /\ Count("decode") = 1
        /\ failure \notin {"acquire", "spawn"} =>
              /\ Count("set_input") = 1
              /\ Count("join") = 1
              /\ Len(WorkerEvents) >= Len(StartSignalOrder) + 2
        /\ failure \in {"none", "checksum"} =>
              events = << "get_pin", "spawn" >> \o TransactionOrder
                          \o << "join", "decode" >>
        /\ (failure \in {"none", "checksum"} /\ fault = NoFault) =>
              callResult = ReadingOf(op, sensorFrame)

C11_Witness ==
    /\ CallReturned
    /\ reads = 2
    /\ fault = NoFault
    /\ callResult.tag = "Ok"
    /\ callResult = ReadingOf(op, sensorFrame)
    /\ Count("checksum") = 1

(* ----------------------------------------------------------------------- *)
(* C12: at most one transaction is in flight: while the worker of a call   *)
(* runs the caller is blocked in join, dht22_read has returned only after  *)
(* the worker finished, and the pin is held by one party only (the caller  *)
(* between acquisition and spawn, the worker while it runs).               *)
WorkerRunning == workerPc \notin {"none", "done", "joined"}

C12_OneTransactionInFlight ==
    /\ WorkerRunning => callerPc = "join"
    /\ workerPc = "done" => callerPc = "join"
    /\ callerPc \in {"idle", "get_pin", "spawn", "decode"} =>
          workerPc \in {"none", "joined"}
    /\ callerPc \in {"idle", "get_pin", "decode"} => ~ pinHeld
    /\ pinHeld => \/ callerPc = "spawn" /\ workerPc = "none"
                  \/ callerPc = "join" /\ WorkerRunning
    /\ Count("spawn") <= 1

C12_Witness ==
    /\ reads = 2
    /\ callerPc = "join"
    /\ workerPc = "measure_low"
    /\ i = NUM_DATA_BITS - 1
    /\ pinHeld

(* ----------------------------------------------------------------------- *)
(* C13: the worker's pin actions and measurements happen in one order:     *)
(* pull-up and output mode, High, sleep 1 ms, Low, sleep 1.1 ms, High,     *)
(* input mode, measure High, measure Low, measure High, forty times        *)
(* (measure Low, measure High), validation, checksum.  None is skipped or  *)
(* reordered, and a failed acknowledgement check ends the transaction      *)
(* before any data-phase measurement.                                      *)
C13_StepOrder ==
    LET w == WorkerEvents IN
    /\ IsPrefix(w, TransactionOrder)
    /\ Returned =>
          Len(w) =
              CASE failure = "ack_low" ->
                       Len(StartSignalOrder) + 2
                [] failure = "ack_high" ->
                       Len(StartSignalOrder) + 3
                [] failure = "pulse_timeout" ->
                       Len(TransactionOrder) - 1
                [] OTHER -> Len(TransactionOrder)
    /\ (Past("measure_ack_low") /\ ~ InAckWindow(pulse_length_low)) =>
          Len(w) = Len(StartSignalOrder) + 2
    /\ (Past("measure_ack_high") /\ ~ InAckWindow(pulse_length_high)) =>
          Len(w) <= Len(StartSignalOrder) + 3

C13_Witness ==
    /\ Returned
    /\ failure = "none"
    /\ WorkerEvents = TransactionOrder

(* ----------------------------------------------------------------------- *)
(* C14: whenever measure_pulse is about to be called the pin is in input   *)
(* mode with the pull-up on; from the switch to input until the            *)
(* transaction ends the worker changes neither level, mode nor pull, and   *)
(* the measurements change none of them.                                   *)
MeasureSteps ==
    {"measure_response", "measure_ack_low", "measure_ack_high",
     "measure_low", "measure_high"}

PinSettingEvents ==
    {"set_pullup", "set_output", "set_high", "set_low", "set_input"}

C14_InputWithPullUpWhileMeasuring ==
    /\ workerPc \in MeasureSteps =>
          /\ pinMode = "Input"
          /\ pinPull = "PullUp"
    /\ workerPc \in MeasureSteps \cup {"validate", "checksum"} =>
          /\ pinHeld
          /\ pinMode = "Input"
          /\ pinPull = "PullUp"
          /\ pinLevel = "High"
    /\ LET w == WorkerEvents
           switched == {m \in 1 .. Len(w) : w[m] = "set_input"}
       IN  \A m \in switched : \A n \in (m + 1) .. Len(w) :
              w[n] \notin PinSettingEvents

C14_Witness ==
    /\ workerPc = "measure_high"
    /\ i = NUM_DATA_BITS - 1
    /\ pinMode = "Input"
    /\ pinPull = "PullUp"
    /\ Len(WorkerEvents) = Len(StartSignalOrder) + 3 + 2 * i + 1

(* ----------------------------------------------------------------------- *)
(* The pulse waits of the transaction so far and those that ran to the     *)
(* timeout.                                                                *)
RanToTimeout(d) == d > PULSE_TIMEOUT

NumLongIn(durations) ==
    Cardinality({n \in BitIdx : RanToTimeout(durations[n])})

NumLongWaits ==
    (IF RanToTimeout(responseDur) THEN 1 ELSE 0)
    + (IF RanToTimeout(pulse_length_low) THEN 1 ELSE 0)
    + (IF RanToTimeout(pulse_length_high) THEN 1 ELSE 0)
    + NumLongIn(bit_transfer_start_pulse_durations)
    + NumLongIn(pulse_durations)

NumWaits == Count("measure_high") + Count("measure_low")

MeasuredDurations ==
    {responseDur, pulse_length_low, pulse_length_high}
    \cup {bit_transfer_start_pulse_durations[n] : n \in BitIdx}
    \cup {pulse_durations[n] : n \in BitIdx}

(* C16 as stated: in the worst case a transaction has at most 42 pulse     *)
(* waits that each run to the 200 us timeout.                              *)
C16_AtMost42TimeoutWaits == NumLongWaits <= 42

(* C16, amended: a transaction has at most 3 + 2 * 40 = 83 pulse waits,    *)
(* each ends at the first poll after the timeout has passed, and at most   *)
(* 1 + 2 * 40 = 81 of them run to the timeout (the two acknowledgement     *)
(* waits must stay inside the window for the transaction to go on).        *)
C16_BoundedWaits ==
    LET long == NumLongWaits IN
    /\ NumWaits <= 3 + 2 * NUM_DATA_BITS
    /\ \A d \in MeasuredDurations : d <= PULSE_TIMEOUT + 1
    /\ long <= 1 + 2 * NUM_DATA_BITS
    /\ (RanToTimeout(pulse_length_low) \/ RanToTimeout(pulse_length_high)) =>
          long <= 2

C16_Witness ==
    /\ Returned
    /\ NumWaits = 3 + 2 * NUM_DATA_BITS
    /\ NumLongWaits = 1 + 2 * NUM_DATA_BITS

(* ----------------------------------------------------------------------- *)
(* C17: the High level measured right after the switch to input is not     *)
(* validated: for every measured duration below the timeout, 0 included,   *)
(* the worker goes on to measure the acknowledgement Low pulse, and that   *)
(* duration never by itself decides the outcome.                           *)
C17_ResponseNotValidated ==
    (Past("measure_response") /\ responseDur < PULSE_TIMEOUT) =>
        /\ \/ workerPc = "measure_ack_low"
           \/ /\ Len(WorkerEvents) >= Len(StartSignalOrder) + 2
              /\ WorkerEvents[Len(StartSignalOrder) + 2] = "measure_low"
        /\ workerPc = "measure_ack_low" =>
              /\ failure = "none"
              /\ threadResult = NoResult
        /\ Returned =>
              failure \in {"none", "ack_low", "ack_high", "pulse_timeout",
                           "checksum"}

C17_Witness ==
    /\ Returned
    /\ responseDur = 0
    /\ threadResult.tag = "Ok"

(* ----------------------------------------------------------------------- *)
(* C15: every transaction terminates with a result for every behaviour of  *)
(* the line, a line that never changes and one that changes at any moment  *)
(* included: a pulse wait leaves its loop only when the level read differs *)
(* from the target or when the elapsed time read exceeds the timeout, and, *)
(* as the clock advances, every wait does end.                             *)
C15_TransactionTerminates ==
    /\ (pollPc # "off") ~> (pollPc = "done")
    /\ [](pollPc = "done" => pollResult \in {"TimedOut", "Decoded"})
    /\ [](pollPc = "exit" =>
             \/ pollBroke /\ pollElapsed > PULSE_TIMEOUT
             \/ ~ pollBroke)
    /\ [][(pollPc = "read" /\ pollPc' = "exit") =>
             pollLine # TargetLevel(pollWait)]_vars
    /\ [][(pollPc = "check" /\ pollPc' = "exit") =>
             pollElapsed > PULSE_TIMEOUT]_vars

C15_Witness ==
    /\ pollPc = "done"
    /\ pollResult = "TimedOut"
    /\ pollHighCut
    /\ ~ pollAckFailed
    /\ pollWait = LastWait

(* ----------------------------------------------------------------------- *)
(* C18: when measure_pulse leaves its loop through the timeout check the   *)
(* duration it returns is greater than the timeout, so a data-phase High   *)
(* wait cut off by the timeout is rejected by the timeout check of the     *)
(* validation and the transaction does not reach the checksum stage.       *)
C18_CutOffWaitRejected ==
    /\ (pollPc = "use" /\ pollBroke) => pollDuration > PULSE_TIMEOUT
    /\ pollHighCut => pollHighOver
    /\ (pollPc = "done" /\ pollHighCut) => pollResult = "TimedOut"

C18_Witness ==
    /\ pollPc = "use"
    /\ pollBroke
    /\ IsDataHighWait(pollWait)
    /\ pollDuration = PULSE_TIMEOUT + PollTick

(* ----------------------------------------------------------------------- *)
(* C19: after any return of dht22_read the pin is no longer held, so a     *)
(* later read can acquire it again; a failed acquisition returns its       *)
(* error without starting a worker and without driving or reconfiguring    *)
(* the line.                                                               *)
C19_PinReleasedOnReturn ==
    /\ [](callerPc \in {"decode", "idle"} => ~ pinHeld)
    /\ [](failure = "acquire" =>
             /\ workerPc = "none"
             /\ readResult.tag = "Err"
             /\ WorkerEvents = << >>
             /\ Count("spawn") = 0)
    /\ [][(callerPc = "get_pin" /\ failure' = "acquire") =>
             UNCHANGED << pinHeld, pinMode, pinPull, pinLevel, workerPc >>]_vars
    /\ [](callerPc = "get_pin" => ENABLED GetPinOk)

C19_Witness ==
    /\ reads = 2
    /\ callerPc = "spawn"
    /\ pinHeld
    /\ events = << "get_pin" >>

====
